---- MODULE Spec2Model ----
(***************************************************************************)
(* Giveaway cog (src/giveaway/giveaway.py): the store of giveaway records, *)
(* the in-memory table of timer tasks (_end_tasks) and the handlers that   *)
(* read and write them.  Every handler is a coroutine; it is modelled as a *)
(* frame that advances from one await to the next, so that other handlers  *)
(* can run between its read of the store and its write.  A block           *)
(* "async with self.config.guild(guild).giveaways() as gws" is one atomic  *)
(* read-modify-write of the store.  Time is counted in steps of the        *)
(* shortest duration the commands accept (60 seconds).  A timestamp        *)
(* (end_ts, claim_deadline_ts, the wake-up time of a sleeping task) is     *)
(* kept as the time left until it, max(0, ts - now), which is how the code *)
(* uses it; when the clock advances every such value above 0 drops by one. *)
(***************************************************************************)
EXTENDS Integers, Sequences, FiniteSets, Bags, TLC

\* ----- bounds of the model -----
MaxUsers == 3
MaxWinnerArg == 2
MaxInflight == 2
MaxTasks == 2
MaxEvents == 5

\* ----- program constants -----
WinnerCap == 50
MinClaimSeconds == 60
MinDuration == 60

Users == 1..MaxUsers
TaskIds == 1..MaxTasks
MessageIds == {1}
None == -1
Durations == {MinDuration}
DefaultEmoji == "tada"
\* the channel, the host and the prize of the start command; the prize of an edit
ChannelId == 1
HostId == 1
StartPrize == "Nitro"
NoPrize == ""
Prizes == {"Hoodie"}
\* what the host types as the claim window in the builder
ClaimTexts == {"1m", "soon"}
Emojis == {DefaultEmoji, "other"}
Keys == MessageIds \X {"end", "claim"}

VARIABLES
    giveaways,   \* config.guild(guild).giveaways: message id -> giveaway_data
    message,     \* the hosting message of each id: "unsent", "present", "gone"
    tasks,       \* the asyncio tasks created by the two schedulers
    end_tasks,   \* self._end_tasks: key -> task handle (None when absent)
    inflight,    \* bag of handler frames suspended at an await
    view,        \* the message shows a Claim button whose ClaimView is registered
    events,      \* number of commands, reactions, clicks and restarts so far
    draw,        \* history: the pool and the replaced winners of the last committed draw
    channels,    \* counting: config.guild(guild).channels: channel id -> channel_config
    announced,   \* counting history: the goal values announced since the count was last reset
    streak,      \* counting history: the author of the last accepted counts and how many
    timers,      \* remindme: config.timers: timer id -> time left until end_ts
    timer_tasks, \* remindme: self._timer_tasks: timer id -> state of its run() task
    delivered,   \* remindme history: the timers whose reminder was sent
    restarts,    \* remindme: how often the cog was unloaded and loaded again
    created_vcs, \* autovc: config.guild(guild).created_vcs: the recorded channel ids
    guild_vcs,   \* autovc: the created voice channels that exist on the platform
    member_at,   \* autovc: where each member is: None, the source channel, or a channel id
    join,        \* autovc: the on_voice_state_update handler of each member's join
    cleanup,     \* autovc: the pass of _cleanup_guild_vcs that is under way
    leaving,     \* autovc: the channels that _delete_vc_immediately is about to delete
    fresh,       \* autovc: the recorded channels created less than two seconds ago
    next_vc      \* autovc: the id the platform gives to the next channel

vars == <<giveaways, message, tasks, end_tasks, inflight, view, events, draw>>

\* the state of the other cogs of the bot, which no giveaway handler touches
counting_vars == <<channels, announced, streak>>
remind_vars == <<timers, timer_tasks, delivered, restarts>>
autovc_vars == <<created_vcs, guild_vcs, member_at, join, cleanup, leaving, fresh, next_vc>>
other_cogs == <<counting_vars, remind_vars, autovc_vars>>

\* ----- helpers -----
Min(a, b) == IF a < b THEN a ELSE b
Max(a, b) == IF a > b THEN a ELSE b
InSeq(x, s) == \E i \in 1..Len(s) : s[i] = x
SeqToSet(s) == {s[i] : i \in 1..Len(s)}
NoDup(s) == \A i, j \in 1..Len(s) : i # j => s[i] # s[j]
Without(s, excl) == LET keep(x) == ~InSeq(x, excl) IN SelectSeq(s, keep)

\* random.sample(population, k): k elements at pairwise distinct positions
sample_with_replacement(population, k) ==
    {[i \in 1..k |-> population[p[i]]] : p \in [1..k -> 1..Len(population)]}
random_sample(population, k) ==
    {[i \in 1..k |-> population[p[i]]] :
        p \in {q \in [1..k -> 1..Len(population)] :
                  \A i, j \in 1..k : i # j => q[i] # q[j]}}

\* a number of seconds in steps of the clock
ticks(seconds) == seconds \div MinClaimSeconds
\* time.time() + seconds, as the time left until then
after(seconds) == ticks(seconds)
\* max(0.0, ts - now)
time_left(ts) == Max(0, ts)

\* Giveaway._winner_count
winner_count_of(data) ==
    IF data.winner_count >= 1 THEN Min(data.winner_count, WinnerCap) ELSE 1

\* Giveaway._winner_ids_list
winner_ids_list(data) ==
    IF data.winner_ids # <<>> THEN data.winner_ids
    ELSE IF data.winner_id # None THEN <<data.winner_id>>
    ELSE <<>>

\* k = min(winner_count, len(pool)) in the three draws
draw_size_single(wc, pool) == Min(1, Len(pool))
draw_size(wc, pool) == Min(wc, Len(pool))

\* _parse_start_options: options["winners"] = max(1, min(50, n))
parse_winners(n) == Max(1, Min(WinnerCap, n))

\* giveaway_data as stored by start
giveaway_data(wc, d, cs) ==
    [channel_id |-> ChannelId, host_id |-> HostId, prize |-> StartPrize,
     status |-> "active", end_ts |-> after(d), emoji |-> DefaultEmoji, entries |-> <<>>,
     winner_id |-> None, winner_ids |-> <<>>, winner_count |-> wc,
     claimed_winner_ids |-> <<>>, claim_enabled |-> (cs >= MinClaimSeconds),
     claim_seconds |-> cs, claim_deadline_ts |-> None, claimed |-> FALSE]

Has(m) == m \in DOMAIN giveaways
Put(m, g) == [x \in DOMAIN giveaways \cup {m} |-> IF x = m THEN g ELSE giveaways[x]]
Pop(m) == [x \in DOMAIN giveaways \ {m} |-> giveaways[x]]

\* ----- handler frames -----
Frame(h, pc, m, t, u) ==
    [h |-> h, pc |-> pc, mid |-> m, task |-> t, user |-> u,
     entries |-> <<>>, winner_count |-> 0, claim |-> FALSE, ts |-> None,
     prize |-> NoPrize]

FreeTask == [st |-> "free", kind |-> "none", mid |-> None, due |-> 0]
FreeIds(ts) == {t \in TaskIds : ts[t].st = "free"}
NewTid(ts) == CHOOSE t \in FreeIds(ts) : \A u \in FreeIds(ts) : t <= u

\* The in-memory part of the cog: S = [tasks, end_tasks, inflight]
Mem == [tasks |-> tasks, end_tasks |-> end_tasks, inflight |-> inflight]

FramesOf(S, t) == {f \in BagToSet(S.inflight) : f.task = t}

\* task.cancel() guarded by "if task and not task.done()": a sleeping task or
\* a task suspended inside its handler gets CancelledError at its await
cancel_task(S, t) ==
    IF t = None \/ S.tasks[t].st \in {"free", "cancelling"} THEN S
    ELSE [S EXCEPT !.tasks[t].st = "cancelling",
                   !.inflight = S.inflight (-) SetToBag(FramesOf(S, t))]

\* Giveaway._cancel_tasks_for
pop_key(S, key) == [S EXCEPT !.end_tasks[key] = None]
cancel_tasks_for(S, m) ==
    LET S1 == pop_key(cancel_task(S, S.end_tasks[<<m, "end">>]), <<m, "end">>)
    IN  pop_key(cancel_task(S1, S1.end_tasks[<<m, "claim">>]), <<m, "claim">>)

create_task(S, m, kind, delay) ==
    LET t == NewTid(S.tasks)
    IN  [S EXCEPT !.tasks[t] = [st |-> "sleeping", kind |-> kind, mid |-> m, due |-> delay],
                  !.end_tasks[<<m, kind>>] = t]

\* Giveaway._schedule_end_task
schedule_end_task(S, m, delay) == create_task(cancel_tasks_for(S, m), m, "end", delay)

\* Giveaway._schedule_claim_task_impl
schedule_claim_task_impl(S, m, delay) ==
    create_task(cancel_task(S, S.end_tasks[<<m, "claim">>]), m, "claim", delay)

\* the handler of frame f returns: a handler run by a timer task falls into
\* run()'s "finally: self._end_tasks.pop(key, None)" and the task is done
handler_return(S, f) ==
    IF f.task = None THEN S
    ELSE [S EXCEPT !.end_tasks[<<S.tasks[f.task].mid, S.tasks[f.task].kind>>] = None,
                   !.tasks[f.task] = FreeTask]

Take(S, f) == [S EXCEPT !.inflight = S.inflight (-) SetToBag({f})]
Give(S, f) == [S EXCEPT !.inflight = S.inflight (+) SetToBag({f})]

SetMem(S) ==
    /\ tasks' = S.tasks
    /\ end_tasks' = S.end_tasks
    /\ inflight' = S.inflight

\* a cancelled task handles its CancelledError on the next pass of the event
\* loop, before any event that arrives later is taken up
Quiet == \A t \in TaskIds : tasks[t].st # "cancelling"
CanSpawn == Quiet /\ BagCardinality(inflight) < MaxInflight
CanArm(S) == FreeIds(S.tasks) # {}

NoDraw ==
    [kind |-> "none", pool |-> 0, prev |-> {}, early |-> FALSE, former |-> {}, late |-> FALSE]
\* former: the winners that draws before the last one replaced; late: an end
\* handler reached its write block after the record had left status active
Drawn(m, kind, pool, prev, early) ==
    [draw EXCEPT ![m] = [kind |-> kind, pool |-> Len(pool), prev |-> SeqToSet(prev),
                         early |-> early,
                         former |-> IF kind = "initial" THEN {}
                                    ELSE draw[m].former \cup draw[m].prev,
                         late |-> draw[m].late]]

\* ----- Counting cog (src/counting/counting.py): state -----
MaxCount == 5
CountingChannel == 1
\* numbers are kept in units of 0.00001, so that the comparison
\* abs(parsed_value - expected) > 0.0001 and int(parsed_value) are exact
Scale == 100000
Tolerance == 10
NoStreak == [user |-> None, n |-> 0]

\* config.register_guild(channels={})
CountingInit ==
    /\ channels = <<>>
    /\ announced = {}
    /\ streak = NoStreak

\* ----- Remindme cog (src/remindme/remindme.py): state -----
MaxReminders == 2
MaxDelay == 2
MaxRestarts == 1
ReminderIds == 1..MaxReminders

\* config.register_global(timers=[]), self._timer_tasks = {}
RemindInit ==
    /\ timers = <<>>
    /\ timer_tasks = [id \in ReminderIds |-> "none"]
    /\ delivered = {}
    /\ restarts = 0

\* ----- AutoVC cog (src/autovc/autovc.py): state -----
MaxVcs == 2
MaxMembers == 2
VcIds == 1..MaxVcs
Members == 1..MaxMembers
SourceVc == 0
IdleJoin == [pc |-> "idle", vc |-> None]
IdleCleanup == [pc |-> "sleep", created_vcs |-> {}, vcs_to_delete |-> {}, todo |-> {}]

\* default_guild: created_vcs = {}; nobody is in voice; cleanup_loop sleeps
AutoVCInit ==
    /\ created_vcs = {}
    /\ guild_vcs = {}
    /\ member_at = [m \in Members |-> None]
    /\ join = [m \in Members |-> IdleJoin]
    /\ cleanup = IdleCleanup
    /\ leaving = {}
    /\ fresh = {}
    /\ next_vc = 1

Init ==
    /\ CountingInit
    /\ RemindInit
    /\ AutoVCInit
    /\ giveaways = <<>>
    /\ message = [m \in MessageIds |-> "unsent"]
    /\ tasks = [t \in TaskIds |-> FreeTask]
    /\ end_tasks = [k \in Keys |-> None]
    /\ inflight = EmptyBag
    /\ view = [m \in MessageIds |-> FALSE]
    /\ events = 0
    /\ draw = [m \in MessageIds |-> NoDraw]

\* ----- start command -----
Start(m, n, d, cs) ==
    /\ Quiet
    /\ message[m] = "unsent"
    /\ message' = [message EXCEPT ![m] = "present"]
    /\ giveaways' = Put(m, giveaway_data(parse_winners(n), d, cs))
    /\ SetMem(schedule_end_task(Mem, m, time_left(after(d))))
    /\ UNCHANGED <<view, draw>>

\* ----- the builder: SetClaimModal.on_submit and _launch_from_draft -----
\* parse_timedelta with minimum 60 seconds: the duration, or None for a text
\* that is not a duration
parse_timedelta(raw) == IF raw = "1m" THEN MinClaimSeconds ELSE None

\* the claim_seconds that SetClaimModal.on_submit stores in the draft
draft_claim_seconds(claim_enabled, raw) ==
    IF claim_enabled
    THEN LET delta == parse_timedelta(raw)
         IN  IF delta # None THEN delta ELSE 0
    ELSE 0

\* giveaway_data as stored by _launch_from_draft
draft_data(draft) ==
    [giveaway_data(winner_count_of(draft), draft.duration_seconds, draft.claim_seconds)
        EXCEPT !.claim_enabled = draft.claim_enabled]

\* the Start button of the builder, pressed on a draft whose winner count,
\* duration and claim fields have been set through the modals
LaunchFromDraft(m, n, d, claim_enabled, raw) ==
    /\ Quiet
    /\ message[m] = "unsent"
    /\ message' = [message EXCEPT ![m] = "present"]
    /\ LET draft == [winner_count |-> n, duration_seconds |-> d,
                     claim_enabled |-> claim_enabled,
                     claim_seconds |-> draft_claim_seconds(claim_enabled, raw)]
       IN  giveaways' = Put(m, draft_data(draft))
    /\ SetMem(schedule_end_task(Mem, m, time_left(after(d))))
    /\ UNCHANGED <<view, draw>>

\* ----- timers -----
\* a cancelled task gets its CancelledError: "except: pass", then
\* "finally: self._end_tasks.pop(key, None)" pops whatever handle is stored
TaskCancelled(t) ==
    /\ tasks[t].st = "cancelling"
    /\ tasks' = [tasks EXCEPT ![t] = FreeTask]
    /\ end_tasks' = [end_tasks EXCEPT ![<<tasks[t].mid, tasks[t].kind>>] = None]
    /\ UNCHANGED <<giveaways, message, inflight, view, draw>>

\* ----- Giveaway._end_giveaway_task -----
end_read(S, f) ==
    IF ~Has(f.mid) \/ giveaways[f.mid].status # "active"
    THEN handler_return(S, f)
    ELSE Give(S, [f EXCEPT !.pc = "write",
                           !.entries = giveaways[f.mid].entries,
                           !.winner_count = winner_count_of(giveaways[f.mid])])

\* asyncio.sleep(delay) in run() is over and the handler reads the store
EndTimerFire(t) ==
    /\ CanSpawn
    /\ tasks[t].st = "sleeping" /\ tasks[t].kind = "end" /\ tasks[t].due = 0
    /\ SetMem(end_read([Mem EXCEPT !.tasks[t].st = "running"],
                       Frame("end_giveaway", "read", tasks[t].mid, t, None)))
    /\ UNCHANGED <<giveaways, message, view, draw>>

\* the read of the handler called by end_cmd
EndRead(f) ==
    /\ f.h = "end_giveaway" /\ f.pc = "read"
    /\ SetMem(end_read(Take(Mem, f), f))
    /\ UNCHANGED <<giveaways, message, view, draw>>

end_write_with_deadline(g, entries, winner_ids) ==
    [g EXCEPT !.status = "ended",
              !.winner_id = IF winner_ids # <<>> THEN winner_ids[1] ELSE None,
              !.winner_ids = winner_ids,
              !.claimed_winner_ids = <<>>,
              !.entries = entries,
              !.claim_deadline_ts =
                  IF g.claim_enabled /\ g.claim_seconds > 0
                  THEN after(g.claim_seconds) ELSE None]
end_write(g, entries, winner_ids) ==
    [g EXCEPT !.status = "ended",
              !.winner_id = IF winner_ids # <<>> THEN winner_ids[1] ELSE None,
              !.winner_ids = winner_ids,
              !.claimed_winner_ids = <<>>,
              !.entries = entries,
              !.claim_deadline_ts =
                  IF g.claim_enabled /\ g.claim_seconds > 0 /\ winner_ids # <<>>
                  THEN after(g.claim_seconds) ELSE None]

\* if not g or g.get("status") != "active": return
end_write_skips_if_gone(m) == ~Has(m)
end_write_skips(m) == ~Has(m) \/ giveaways[m].status # "active"

\* channel.fetch_message, then the write: a missing channel or message
\* removes the record instead
EndWrite(f) ==
    /\ f.h = "end_giveaway" /\ f.pc = "write"
    /\ IF message[f.mid] # "present"
       THEN /\ giveaways' = Pop(f.mid)
            /\ SetMem(handler_return(Take(Mem, f), f))
            /\ UNCHANGED draw
       ELSE \E winner_ids \in (IF f.entries # <<>>
                               THEN random_sample(f.entries, draw_size(f.winner_count, f.entries))
                               ELSE {<<>>}) :
              IF end_write_skips(f.mid)
              THEN /\ SetMem(handler_return(Take(Mem, f), f))
                   /\ draw' = IF Has(f.mid) THEN [draw EXCEPT ![f.mid].late = TRUE] ELSE draw
                   /\ UNCHANGED giveaways
              ELSE LET g == giveaways[f.mid]
                       claim == g.claim_enabled /\ g.claim_seconds > 0 /\ winner_ids # <<>>
                   IN  /\ giveaways' = Put(f.mid, end_write(g, f.entries, winner_ids))
                       /\ draw' = Drawn(f.mid, "initial", f.entries, g.winner_ids,
                                         f.task # None /\ g.end_ts > 0)
                       /\ SetMem(IF ~claim /\ f.task = None
                                 THEN Take(Mem, f)
                                 ELSE Give(Take(Mem, f),
                                        [Frame(f.h, "arm", f.mid, f.task, None)
                                           EXCEPT !.claim = claim,
                                                  !.ts = IF claim THEN ticks(g.claim_seconds)
                                                         ELSE None]))
    /\ UNCHANGED <<message, view>>

\* message.edit(embed=embed, view=view) puts the Claim button on the message
show_view(m) == IF message[m] = "present" THEN [view EXCEPT ![m] = TRUE] ELSE view

\* after message.edit and channel.send: arm the claim timer, then return
EndArm(f) ==
    /\ f.h = "end_giveaway" /\ f.pc = "arm"
    /\ IF f.claim
       THEN /\ CanArm(Mem)
            /\ SetMem(handler_return(
                         schedule_claim_task_impl(Take(Mem, f), f.mid, f.ts), f))
            /\ view' = show_view(f.mid)
       ELSE /\ SetMem(handler_return(Take(Mem, f), f))
            /\ view' = view
    /\ UNCHANGED <<giveaways, message, draw>>

\* ----- who may run end, edit, reroll and cancel -----
\* what the author of a command holds in the guild when the command arrives:
\* nothing, the bot's admin role, or the manage-guild permission
Perms == {"member", "admin", "manage_guild"}
\* the authors of commands: the host, who holds the admin role, a moderator
\* with manage-guild, an admin who is not the host, and a plain member
Host == [id |-> HostId, perms |-> "admin"]
Authors ==
    {Host, [id |-> 2, perms |-> "manage_guild"],
     [id |-> 3, perms |-> "admin"], [id |-> 3, perms |-> "member"]}

\* @commands.admin_or_permissions(manage_guild=True)
admin_or_permissions(perms) == perms \in {"admin", "manage_guild"}

\* Giveaway._can_manage
can_manage_anyone(user, perms, host_id) == TRUE
can_manage(user, perms, host_id) == user = host_id \/ perms = "manage_guild"

\* the command is not invoked, or replies "You cannot manage this giveaway."
cmd_denied(m, author, perms) ==
    \/ ~admin_or_permissions(perms)
    \/ Has(m) /\ ~can_manage(author, perms, giveaways[m].host_id)

\* ----- Giveaway.end_cmd -----
\* "That giveaway is not active."
end_rejects(data) == data.status # "active"

EndCmd(m, author, perms) ==
    /\ CanSpawn
    /\ IF cmd_denied(m, author, perms) \/ ~Has(m) \/ end_rejects(giveaways[m])
       THEN UNCHANGED <<tasks, end_tasks, inflight>>
       ELSE SetMem(Give(cancel_tasks_for(Mem, m),
                        Frame("end_giveaway", "read", m, None, None)))
    /\ UNCHANGED <<giveaways, message, view, draw>>

\* ----- Giveaway._claim_timeout_task -----
\* pool = [u for u in entries if u not in winner_ids]
redraw_pool_without_former(data) ==
    Without(data.entries,
            winner_ids_list(data) \o
            [i \in 1..Len(data.entries) |->
                IF \E m \in MessageIds : data.entries[i] \in draw[m].prev \cup draw[m].former
                THEN data.entries[i] ELSE None])
redraw_pool(data) == Without(data.entries, winner_ids_list(data))

\* the early returns after the read: every winner has claimed, or the pool is empty
redraw_skips_if_claimed(data) ==
    Len(data.claimed_winner_ids) >= Len(winner_ids_list(data))
redraw_skips(data) ==
    \/ Len(data.claimed_winner_ids) >= Len(winner_ids_list(data))
    \/ redraw_pool(data) = <<>>

ClaimTimerFire(t) ==
    /\ CanSpawn
    /\ tasks[t].st = "sleeping" /\ tasks[t].kind = "claim" /\ tasks[t].due = 0
    /\ LET m == tasks[t].mid
           f == Frame("claim_timeout", "write", m, t, None)
           S == [Mem EXCEPT !.tasks[t].st = "running"]
       IN  IF ~Has(m) \/ giveaways[m].status # "ended"
           THEN SetMem(handler_return(S, f))
           ELSE LET data == giveaways[m]
                IN  IF redraw_skips(data)
                    THEN SetMem(handler_return(S, f))
                    ELSE SetMem(Give(S,
                            [f EXCEPT !.entries = redraw_pool(data),
                                      !.winner_count = winner_count_of(data),
                                      !.claim = (data.claim_seconds > 0),
                                      !.ts = after(data.claim_seconds)]))
    /\ UNCHANGED <<giveaways, message, view, draw>>

redraw_write_old_deadline(g, new_winner_ids, claim_deadline_ts) ==
    [g EXCEPT !.winner_id = IF new_winner_ids # <<>> THEN new_winner_ids[1] ELSE None,
              !.winner_ids = new_winner_ids,
              !.claimed_winner_ids = <<>>]
redraw_write(g, new_winner_ids, claim_deadline_ts) ==
    [g EXCEPT !.winner_id = IF new_winner_ids # <<>> THEN new_winner_ids[1] ELSE None,
              !.winner_ids = new_winner_ids,
              !.claimed_winner_ids = <<>>,
              !.claim_deadline_ts = claim_deadline_ts]

ClaimTimeoutWrite(f) ==
    /\ f.h = "claim_timeout" /\ f.pc = "write"
    /\ \E new_winner_ids \in random_sample(f.entries, draw_size(f.winner_count, f.entries)) :
         IF ~Has(f.mid) \/ giveaways[f.mid].status # "ended"
         THEN /\ SetMem(handler_return(Take(Mem, f), f))
              /\ UNCHANGED <<giveaways, draw>>
         ELSE LET g == giveaways[f.mid]
              IN  /\ giveaways' = Put(f.mid, redraw_write(g, new_winner_ids, f.ts))
                  /\ draw' = Drawn(f.mid, "redraw", f.entries, g.winner_ids,
                                    g.claim_deadline_ts > 0)
                  /\ SetMem(Give(Take(Mem, f),
                        [Frame(f.h, "arm", f.mid, f.task, None)
                           EXCEPT !.claim = f.claim, !.ts = f.ts]))
    /\ UNCHANGED <<message, view>>

\* a missing channel or message returns before the timer is re-armed
ClaimTimeoutArm(f) ==
    /\ f.h = "claim_timeout" /\ f.pc = "arm"
    /\ IF message[f.mid] = "present" /\ f.claim
       THEN /\ CanArm(Mem)
            /\ SetMem(handler_return(
                         schedule_claim_task_impl(Take(Mem, f), f.mid, f.ts), f))
       ELSE SetMem(handler_return(Take(Mem, f), f))
    /\ view' = show_view(f.mid)
    /\ UNCHANGED <<giveaways, message, draw>>

\* ----- Giveaway._handle_claim_click -----
\* "This giveaway is no longer active.", "Only a winner can claim.",
\* "You have already claimed."
claim_rejects(data, u) ==
    \/ data.status # "ended"
    \/ ~InSeq(u, winner_ids_list(data))
    \/ InSeq(u, data.claimed_winner_ids)

ClaimClickBegin(m, u) ==
    /\ CanSpawn
    /\ message[m] = "present" /\ view[m]
    /\ IF ~Has(m) \/ claim_rejects(giveaways[m], u)
       THEN UNCHANGED <<tasks, end_tasks, inflight>>
       ELSE SetMem(Give(Mem, [Frame("claim_click", "write", m, None, u)
                                 EXCEPT !.winner_count = Len(winner_ids_list(giveaways[m]))]))
    /\ UNCHANGED <<giveaways, message, view, draw>>

claim_write_last_only(g, user, n_winners) ==
    LET claimed == <<user>>
    IN  IF Len(claimed) >= n_winners
        THEN [g EXCEPT !.claimed_winner_ids = claimed,
                       !.status = "claimed", !.claimed = TRUE]
        ELSE [g EXCEPT !.claimed_winner_ids = claimed]
claim_write(g, user, n_winners) ==
    LET claimed == Append(g.claimed_winner_ids, user)
    IN  IF Len(claimed) >= n_winners
        THEN [g EXCEPT !.claimed_winner_ids = claimed,
                       !.status = "claimed", !.claimed = TRUE]
        ELSE [g EXCEPT !.claimed_winner_ids = claimed]

\* the write, then self._end_tasks.pop(key) and task.cancel() of the claim timer
ClaimClickWrite(f) ==
    /\ f.h = "claim_click" /\ f.pc = "write"
    /\ IF ~Has(f.mid)
       THEN /\ SetMem(Take(Mem, f))
            /\ UNCHANGED <<giveaways, view>>
       ELSE LET g == claim_write(giveaways[f.mid], f.user, f.winner_count)
                S == Take(Mem, f)
                key == <<f.mid, "claim">>
            IN  /\ giveaways' = Put(f.mid, g)
                /\ SetMem(pop_key(cancel_task(S, S.end_tasks[key]), key))
                \* msg.edit(embed=embed, view=None) once the status is claimed
                /\ view' = IF g.status = "claimed"
                           THEN [view EXCEPT ![f.mid] = FALSE] ELSE view
    /\ UNCHANGED <<message, draw>>

\* ----- Giveaway.on_raw_reaction_add / on_raw_reaction_remove -----
\* the early returns after the read of on_raw_reaction_add
add_returns_unless_entered(data, u, e) ==
    \/ data.status # "active"
    \/ e # data.emoji
add_returns(data, u, e) ==
    \/ data.status # "active"
    \/ e # data.emoji
    \/ InSeq(u, data.entries)

\* the early returns after the read of on_raw_reaction_remove
remove_returns(data, u, e) ==
    \/ data.status # "active"
    \/ e # data.emoji
    \/ ~InSeq(u, data.entries)

\* participants are interchangeable: a user reacts for the first time only
\* after every user with a smaller id has done so
Reacted ==
    UNION {SeqToSet(giveaways[m].entries) : m \in DOMAIN giveaways}
      \cup {f.user : f \in {x \in BagToSet(inflight) : x.h = "reaction_add"}}
NextToReact(u) == \A v \in Users : v < u => v \in Reacted

\* the read and the early returns; the write comes after an await
ReactionAddBegin(m, u, e) ==
    /\ CanSpawn
    /\ NextToReact(u)
    /\ IF ~Has(m) \/ add_returns(giveaways[m], u, e)
       THEN UNCHANGED <<tasks, end_tasks, inflight>>
       ELSE SetMem(Give(Mem, [Frame("reaction_add", "write", m, None, u)
                                 EXCEPT !.entries = Append(giveaways[m].entries, u)]))
    /\ UNCHANGED <<giveaways, message, view, draw>>

ReactionRemoveBegin(m, u, e) ==
    /\ CanSpawn
    /\ u \in Reacted
    /\ IF ~Has(m) \/ remove_returns(giveaways[m], u, e)
       THEN UNCHANGED <<tasks, end_tasks, inflight>>
       ELSE SetMem(Give(Mem, [Frame("reaction_remove", "write", m, None, u)
                                 EXCEPT !.entries = Without(giveaways[m].entries, <<u>>)]))
    /\ UNCHANGED <<giveaways, message, view, draw>>

entries_write_any(g, entries) == [g EXCEPT !.entries = entries]
entries_write(g, entries) ==
    IF g.status = "active" THEN [g EXCEPT !.entries = entries] ELSE g

ReactionWrite(f) ==
    /\ f.h \in {"reaction_add", "reaction_remove"} /\ f.pc = "write"
    /\ giveaways' = IF Has(f.mid)
                    THEN Put(f.mid, entries_write(giveaways[f.mid], f.entries))
                    ELSE giveaways
    /\ SetMem(Take(Mem, f))
    /\ UNCHANGED <<message, view, draw>>

\* ----- Giveaway.reroll -----
\* "You can only reroll an ended giveaway.", "No other entries to reroll."
reroll_rejects_active(data) ==
    \/ data.status \notin {"active", "ended", "claimed"}
    \/ Without(data.entries, winner_ids_list(data)) = <<>>
reroll_rejects(data) ==
    \/ data.status \notin {"ended", "claimed"}
    \/ Without(data.entries, winner_ids_list(data)) = <<>>

RerollBegin(m, author, perms) ==
    /\ CanSpawn
    /\ IF cmd_denied(m, author, perms) \/ ~Has(m) \/ reroll_rejects(giveaways[m])
       THEN UNCHANGED <<tasks, end_tasks, inflight>>
       ELSE LET data == giveaways[m]
                pool == Without(data.entries, winner_ids_list(data))
            IN  SetMem(Give(Mem, [Frame("reroll", "write", m, None, None)
                                  EXCEPT !.entries = pool,
                                         !.winner_count = winner_count_of(data),
                                         !.claim = (data.claim_enabled /\ data.claim_seconds > 0),
                                         !.ts = IF data.claim_enabled /\ data.claim_seconds > 0
                                                THEN ticks(data.claim_seconds) ELSE None]))
    /\ UNCHANGED <<giveaways, message, view, draw>>

reroll_write_active(g, new_winner_ids) ==
    [g EXCEPT !.winner_id = IF new_winner_ids # <<>> THEN new_winner_ids[1] ELSE None,
              !.winner_ids = new_winner_ids,
              !.claimed_winner_ids = <<>>,
              !.status = "active",
              !.claimed = FALSE,
              !.claim_deadline_ts =
                  IF g.claim_enabled /\ g.claim_seconds > 0
                  THEN after(g.claim_seconds) ELSE g.claim_deadline_ts]
reroll_write(g, new_winner_ids) ==
    [g EXCEPT !.winner_id = IF new_winner_ids # <<>> THEN new_winner_ids[1] ELSE None,
              !.winner_ids = new_winner_ids,
              !.claimed_winner_ids = <<>>,
              !.status = "ended",
              !.claimed = FALSE,
              !.claim_deadline_ts =
                  IF g.claim_enabled /\ g.claim_seconds > 0
                  THEN after(g.claim_seconds) ELSE g.claim_deadline_ts]

RerollWrite(f) ==
    /\ f.h = "reroll" /\ f.pc = "write"
    /\ \E new_winner_ids \in random_sample(f.entries, draw_size(f.winner_count, f.entries)) :
         IF ~Has(f.mid)
         THEN /\ SetMem(Take(Mem, f))
              /\ UNCHANGED <<giveaways, draw>>
         ELSE LET g == giveaways[f.mid]
              IN  /\ giveaways' = Put(f.mid, reroll_write(g, new_winner_ids))
                  /\ draw' = Drawn(f.mid, "reroll", f.entries, g.winner_ids, FALSE)
                  /\ SetMem(Give(Take(Mem, f),
                        [Frame(f.h, "arm", f.mid, None, None)
                           EXCEPT !.claim = f.claim, !.ts = f.ts]))
    /\ UNCHANGED <<message, view>>

\* msg.edit(embed=embed, view=view), then the claim timer if claim is enabled
RerollArm(f) ==
    /\ f.h = "reroll" /\ f.pc = "arm"
    /\ IF f.claim
       THEN /\ CanArm(Mem)
            /\ SetMem(schedule_claim_task_impl(Take(Mem, f), f.mid, f.ts))
       ELSE SetMem(Take(Mem, f))
    /\ view' = show_view(f.mid)
    /\ UNCHANGED <<giveaways, message, draw>>

\* ----- Giveaway.edit_cmd -----
\* "You can only edit an active giveaway."
edit_rejects(data) == data.status # "active"

\* updates: a prize that is not blank, a duration of at least 60 seconds;
\* the end timer is re-armed before the new end_ts is stored
EditCmd(m, author, perms, prize, duration) ==
    /\ CanSpawn
    /\ IF \/ cmd_denied(m, author, perms)
          \/ ~Has(m) \/ edit_rejects(giveaways[m]) \/ (prize = NoPrize /\ duration = None)
       THEN UNCHANGED <<tasks, end_tasks, inflight>>
       ELSE IF duration = None
       THEN SetMem(Give(Mem, [Frame("edit", "write", m, None, None)
                                 EXCEPT !.prize = prize]))
       ELSE /\ CanArm(Mem)
            /\ SetMem(Give(schedule_end_task(cancel_tasks_for(Mem, m), m, ticks(duration)),
                           [Frame("edit", "write", m, None, None)
                               EXCEPT !.prize = prize, !.ts = after(duration)]))
    /\ UNCHANGED <<giveaways, message, view, draw>>

\* g.update(updates)
edit_update_and_reset(g, prize, end_ts) ==
    [g EXCEPT !.prize = IF prize # NoPrize THEN prize ELSE @,
              !.end_ts = IF end_ts # None THEN end_ts ELSE @,
              !.winner_count = 1]
edit_update(g, prize, end_ts) ==
    [g EXCEPT !.prize = IF prize # NoPrize THEN prize ELSE @,
              !.end_ts = IF end_ts # None THEN end_ts ELSE @]

EditWrite(f) ==
    /\ f.h = "edit" /\ f.pc = "write"
    /\ giveaways' = IF Has(f.mid)
                    THEN Put(f.mid, edit_update(giveaways[f.mid], f.prize, f.ts))
                    ELSE giveaways
    /\ SetMem(Take(Mem, f))
    /\ UNCHANGED <<message, view, draw>>

\* ----- Giveaway.cancel_cmd -----
\* "That giveaway cannot be cancelled."
cancel_rejects(data) == data.status \notin {"active", "ended"}

CancelBegin(m, author, perms) ==
    /\ CanSpawn
    /\ IF cmd_denied(m, author, perms) \/ ~Has(m) \/ cancel_rejects(giveaways[m])
       THEN UNCHANGED <<tasks, end_tasks, inflight>>
       ELSE SetMem(Give(pop_key(cancel_tasks_for(Mem, m), <<m, "claim">>),
                        Frame("cancel", "write", m, None, None)))
    /\ UNCHANGED <<giveaways, message, view, draw>>

\* the write, then msg.edit(embed=embed, view=None)
CancelWrite(f) ==
    /\ f.h = "cancel" /\ f.pc = "write"
    /\ giveaways' = IF Has(f.mid)
                    THEN Put(f.mid, [giveaways[f.mid] EXCEPT !.status = "cancelled"])
                    ELSE giveaways
    /\ view' = [view EXCEPT ![f.mid] = FALSE]
    /\ SetMem(Take(Mem, f))
    /\ UNCHANGED <<message, draw>>

\* ----- restart: every task and suspended handler is lost, then cog_load -----
\* cog_load: the records whose ClaimView and claim timer are set up again
reloads_nothing(data) == FALSE
reloads_claim(data) ==
    /\ data.status = "ended" /\ ~data.claimed
    /\ data.claim_enabled /\ data.claim_deadline_ts # None

RECURSIVE cog_load(_, _)
cog_load(S, ms) ==
    IF ms = {} THEN S
    ELSE LET m == CHOOSE x \in ms : TRUE
             data == giveaways[m]
             S1 == IF data.status = "active"
                   THEN schedule_end_task(S, m, time_left(data.end_ts))
                   ELSE IF reloads_claim(data)
                   THEN schedule_claim_task_impl(S, m, time_left(data.claim_deadline_ts))
                   ELSE S
         IN  cog_load(S1, ms \ {m})

Restart ==
    /\ Quiet
    /\ SetMem(cog_load([tasks |-> [t \in TaskIds |-> FreeTask],
                        end_tasks |-> [k \in Keys |-> None],
                        inflight |-> EmptyBag], DOMAIN giveaways))
    /\ view' = [m \in MessageIds |-> view[m] /\ Has(m) /\ reloads_claim(giveaways[m])]
    /\ UNCHANGED <<giveaways, message, draw>>

\* ----- environment: the hosting message or its channel is deleted -----
DeleteMessage(m) ==
    /\ Quiet
    /\ message[m] = "present"
    /\ message' = [message EXCEPT ![m] = "gone"]
    /\ UNCHANGED <<giveaways, tasks, end_tasks, inflight, view, draw>>

\* ----- the clock advances by one step -----
\* handlers take far less than a step and a task whose sleep is over runs at
\* once, so the clock advances only when nothing is running or due
sooner(ts) == IF ts > 0 THEN ts - 1 ELSE ts
Tick ==
    /\ Quiet /\ inflight = EmptyBag
    /\ \A t \in TaskIds : tasks[t].st = "sleeping" => tasks[t].due > 0
    /\ tasks' = [t \in TaskIds |-> [tasks[t] EXCEPT !.due = sooner(@)]]
    /\ giveaways' = [m \in DOMAIN giveaways |->
                        [giveaways[m] EXCEPT !.end_ts = sooner(@),
                                             !.claim_deadline_ts = sooner(@)]]
    /\ <<tasks', giveaways'>> # <<tasks, giveaways>>
    /\ UNCHANGED <<message, end_tasks, inflight, view, draw>>

\* a command, reaction, click, restart or deletion arrives from outside
Event == events < MaxEvents /\ events' = events + 1 /\ UNCHANGED other_cogs
\* a timer fires or a suspended handler resumes
Internal == events' = events /\ UNCHANGED other_cogs

Next ==
    \/ \E m \in MessageIds, n \in 0..MaxWinnerArg, d \in Durations,
          cs \in {0, MinClaimSeconds} :
          Event /\ Start(m, n, d, cs)
    \/ \E m \in MessageIds, n \in 1..MaxWinnerArg, d \in Durations,
          claim_enabled \in BOOLEAN, raw \in ClaimTexts :
          Event /\ LaunchFromDraft(m, n, d, claim_enabled, raw)
    \/ \E t \in TaskIds : Internal /\ EndTimerFire(t)
    \/ \E t \in TaskIds : Internal /\ ClaimTimerFire(t)
    \/ \E t \in TaskIds : Internal /\ TaskCancelled(t)
    \/ \E f \in BagToSet(inflight) : Internal /\ EndRead(f)
    \/ \E f \in BagToSet(inflight) : Internal /\ EndWrite(f)
    \/ \E f \in BagToSet(inflight) : Internal /\ EndArm(f)
    \/ \E m \in MessageIds : Event /\ EndCmd(m, Host.id, Host.perms)
    \/ \E f \in BagToSet(inflight) : Internal /\ ClaimTimeoutWrite(f)
    \/ \E f \in BagToSet(inflight) : Internal /\ ClaimTimeoutArm(f)
    \/ \E m \in MessageIds, u \in Users : Event /\ ClaimClickBegin(m, u)
    \/ \E f \in BagToSet(inflight) : Internal /\ ClaimClickWrite(f)
    \/ \E m \in MessageIds, u \in Users, e \in Emojis : Event /\ ReactionAddBegin(m, u, e)
    \/ \E m \in MessageIds, u \in Users, e \in Emojis : Event /\ ReactionRemoveBegin(m, u, e)
    \/ \E f \in BagToSet(inflight) : Internal /\ ReactionWrite(f)
    \/ \E m \in MessageIds : Event /\ RerollBegin(m, Host.id, Host.perms)
    \/ \E f \in BagToSet(inflight) : Internal /\ RerollWrite(f)
    \/ \E f \in BagToSet(inflight) : Internal /\ RerollArm(f)
    \/ \E m \in MessageIds, prize \in Prizes \cup {NoPrize}, d \in Durations \cup {None} :
          Event /\ EditCmd(m, Host.id, Host.perms, prize, d)
    \/ \E f \in BagToSet(inflight) : Internal /\ EditWrite(f)
    \/ \E m \in MessageIds : Event /\ CancelBegin(m, Host.id, Host.perms)
    \/ \E f \in BagToSet(inflight) : Internal /\ CancelWrite(f)
    \/ Event /\ Restart
    \/ Internal /\ Tick
    \/ \E m \in MessageIds : Event /\ DeleteMessage(m)

Spec == Init /\ [][Next]_vars

\* the same program when the commands come from any author
AuthNext ==
    \/ \E m \in MessageIds, a \in Authors : Event /\ EndCmd(m, a.id, a.perms)
    \/ \E m \in MessageIds, a \in Authors : Event /\ RerollBegin(m, a.id, a.perms)
    \/ \E m \in MessageIds, a \in Authors,
          prize \in Prizes \cup {NoPrize}, d \in Durations \cup {None} :
          Event /\ EditCmd(m, a.id, a.perms, prize, d)
    \/ \E m \in MessageIds, a \in Authors : Event /\ CancelBegin(m, a.id, a.perms)
    \/ Next

AuthSpec == Init /\ [][AuthNext]_vars

\* the steps the event loop takes on its own: a timer whose sleep is over
\* fires, a cancelled task finishes, a suspended handler resumes, time passes
InternalNext ==
    /\ Internal
    /\ \/ \E t \in TaskIds : EndTimerFire(t) \/ ClaimTimerFire(t) \/ TaskCancelled(t)
       \/ \E f \in BagToSet(inflight) :
             \/ EndRead(f) \/ EndWrite(f) \/ EndArm(f)
             \/ ClaimTimeoutWrite(f) \/ ClaimTimeoutArm(f)
             \/ ClaimClickWrite(f) \/ ReactionWrite(f)
             \/ RerollWrite(f) \/ RerollArm(f)
             \/ EditWrite(f) \/ CancelWrite(f)
       \/ Tick

\* the event loop runs whatever is ready; commands and other outside events
\* may stop arriving
LiveSpec == Spec /\ WF_vars(InternalNext)

TypeOK ==
    /\ \A m \in DOMAIN giveaways :
          giveaways[m].status \in {"active", "ended", "claimed", "cancelled"}
    /\ \A t \in TaskIds : tasks[t].st \in {"free", "sleeping", "running", "cancelling"}
    /\ \A t \in TaskIds : (tasks[t].st = "running") <=> (Cardinality(FramesOf(Mem, t)) = 1)
    /\ \A k \in Keys : end_tasks[k] = None \/ tasks[end_tasks[k]].st \in {"sleeping", "running"}
    /\ events \in 0..MaxEvents

\* ----- properties -----
Rec(m) == giveaways[m]
Winners(m) == SeqToSet(Rec(m).winner_ids)
Claimed(m) == SeqToSet(Rec(m).claimed_winner_ids)
Pending(m, kind) ==
    {t \in TaskIds : tasks[t].st = "sleeping" /\ tasks[t].mid = m /\ tasks[t].kind = kind}

\* C1: in every reachable state every id in claimed_winner_ids is in winner_ids
C1_ClaimedSubsetOfWinners ==
    \A m \in DOMAIN giveaways : Claimed(m) \subseteq Winners(m)

\* C2: in every reachable state winner_ids has no duplicate id and every
\* winner is in the record's entries, whichever draw produced the winners
C2_WinnersDistinctAndEntered ==
    \A m \in DOMAIN giveaways :
        /\ NoDup(Rec(m).winner_ids)
        /\ Winners(m) \subseteq SeqToSet(Rec(m).entries)

C2_Witness ==
    \E m \in DOMAIN giveaways :
        /\ draw[m].kind = "redraw"
        /\ Rec(m).winner_ids # <<>>
        /\ Rec(m).winner_count = 2

\* C3 as stated: a drawn record has min(winnerCount, number of entries)
\* winners, also after a redraw or a reroll
C3_CountFromAllEntries ==
    \A m \in DOMAIN giveaways :
        Rec(m).status \in {"ended", "claimed"} =>
            Len(Rec(m).winner_ids) = Min(winner_count_of(Rec(m)), Len(Rec(m).entries))

\* C3 amended: a drawn record has min(winnerCount, size of the pool its
\* winners were drawn from) winners; the pool of the initial draw is all the
\* entries, the pool of a redraw or reroll is the entries without the winners
\* the handler read
C3_CountFromPool ==
    \A m \in DOMAIN giveaways :
        Rec(m).status \in {"ended", "claimed"} =>
            /\ Len(Rec(m).winner_ids) = Min(winner_count_of(Rec(m)), draw[m].pool)
            /\ draw[m].kind = "initial" => draw[m].pool = Len(Rec(m).entries)
            /\ draw[m].kind \in {"redraw", "reroll"} => draw[m].pool < Len(Rec(m).entries)

C3_Witness ==
    \E m \in DOMAIN giveaways :
        /\ Rec(m).status = "ended"
        /\ draw[m].kind = "redraw"
        /\ Len(Rec(m).winner_ids) < Min(winner_count_of(Rec(m)), Len(Rec(m).entries))

\* C4: in one step an active record stays active or becomes ended or
\* cancelled, and an ended record stays ended or becomes claimed or cancelled
\* (a step that removes the record from the store gives it no status)
C4_StatusSteps ==
    [][\A m \in DOMAIN giveaways \cap DOMAIN giveaways' :
          /\ Rec(m).status = "active" =>
                giveaways'[m].status \in {"active", "ended", "cancelled"}
          /\ Rec(m).status = "ended" =>
                giveaways'[m].status \in {"ended", "claimed", "cancelled"}]_vars

C4_Witness ==
    \E m \in DOMAIN giveaways :
        /\ Rec(m).status = "claimed"
        /\ draw[m].kind = "redraw"

Frozen(m) ==
    /\ giveaways'[m].status = Rec(m).status
    /\ giveaways'[m].entries = Rec(m).entries
    /\ giveaways'[m].winner_ids = Rec(m).winner_ids
    /\ giveaways'[m].claimed_winner_ids = Rec(m).claimed_winner_ids

\* C5: once a record is cancelled, no step changes its status, entries,
\* winners or claimedWinners
C5_CancelledIsTerminal ==
    [][\A m \in DOMAIN giveaways \cap DOMAIN giveaways' :
          Rec(m).status = "cancelled" => Frozen(m)]_vars

\* C6: once a record is claimed, no step changes its status, entries,
\* winners or claimedWinners
C6_ClaimedIsTerminal ==
    [][\A m \in DOMAIN giveaways \cap DOMAIN giveaways' :
          Rec(m).status = "claimed" => Frozen(m)]_vars

\* C7: status claimed implies that there are winners and that every winner
\* is in claimed_winner_ids
C7_ClaimedCoversWinners ==
    \A m \in DOMAIN giveaways :
        Rec(m).status = "claimed" =>
            /\ Rec(m).winner_ids # <<>>
            /\ Winners(m) \subseteq Claimed(m)

\* C8: at most one end timer and at most one claim-expiry timer is pending
\* for a record, whether or not its handle is still in _end_tasks
C8_AtMostOneTimerOfEachKind ==
    \A m \in MessageIds :
        /\ Cardinality(Pending(m, "end")) <= 1
        /\ Cardinality(Pending(m, "claim")) <= 1

\* C9: while a record is cancelled no timer is pending for it
C9_NoTimerWhenCancelled ==
    \A m \in DOMAIN giveaways :
        Rec(m).status = "cancelled" =>
            Pending(m, "end") = {} /\ Pending(m, "claim") = {}

\* C10: the winners stored by a redraw or a reroll are disjoint from the
\* winners they replace
C10_ReplacementIsDisjoint ==
    \A m \in DOMAIN giveaways :
        draw[m].kind \in {"redraw", "reroll"} =>
            Winners(m) \cap draw[m].prev = {}

C12_FullClaimCancelsTimer ==
    [][\A m \in DOMAIN giveaways \cap DOMAIN giveaways' :
          (Rec(m).status = "ended" /\ giveaways'[m].status = "claimed")
          => Pending(m, "claim")' = {}]_vars

\* C13: a claim that leaves the status ended (another winner has not claimed
\* yet) leaves the pending claim-expiry timer pending
C13_PartialClaimKeepsTimer ==
    [][\A m \in DOMAIN giveaways \cap DOMAIN giveaways' :
          (/\ Rec(m).status = "ended" /\ giveaways'[m].status = "ended"
           /\ Len(giveaways'[m].claimed_winner_ids) > Len(Rec(m).claimed_winner_ids)
           /\ Pending(m, "claim") # {})
          => Pending(m, "claim")' # {}]_vars

\* C14: a claim-expiry redraw replaces the winners only when the record's
\* current claim_deadline_ts has been reached
C14_RedrawOnlyAtDeadline ==
    \A m \in MessageIds : draw[m].kind = "redraw" => ~draw[m].early

\* C15: a timer-driven end of an active giveaway happens only when the
\* stored end_ts has been reached
C15_TimerEndsOnlyAtEndTs ==
    \A m \in MessageIds : draw[m].kind = "initial" => ~draw[m].early

\* C16: a restart (every timer and suspended handler lost, then cog_load) arms,
\* for every active record, an end timer with delay max(0, end_ts - now), for
\* every ended record with claim enabled and a claim deadline set, a claim
\* timer with delay max(0, claim_deadline_ts - now), and no timer for a
\* claimed or cancelled record
C16_RestartRearmsTimers ==
    [][Restart =>
         \A m \in DOMAIN giveaways :
            /\ Rec(m).status = "active" =>
                  /\ end_tasks'[<<m, "end">>] # None
                  /\ tasks'[end_tasks'[<<m, "end">>]] =
                        [st |-> "sleeping", kind |-> "end", mid |-> m,
                         due |-> Max(0, Rec(m).end_ts)]
            /\ (/\ Rec(m).status = "ended" /\ Rec(m).claim_enabled
                /\ Rec(m).claim_deadline_ts # None) =>
                  /\ end_tasks'[<<m, "claim">>] # None
                  /\ tasks'[end_tasks'[<<m, "claim">>]] =
                        [st |-> "sleeping", kind |-> "claim", mid |-> m,
                         due |-> Max(0, Rec(m).claim_deadline_ts)]
            /\ Rec(m).status \in {"claimed", "cancelled"} =>
                  \A t \in TaskIds : tasks'[t] = FreeTask]_vars

\* after a redraw only cog_load stores the handle of a claim timer
C16_Witness ==
    \E m \in DOMAIN giveaways :
        /\ draw[m].kind = "redraw"
        /\ Rec(m).status = "ended" /\ Rec(m).claim_enabled
        /\ end_tasks[<<m, "claim">>] # None
        /\ tasks[end_tasks[<<m, "claim">>]].st = "sleeping"
        /\ tasks[end_tasks[<<m, "claim">>]].due = Rec(m).claim_deadline_ts
        /\ inflight = EmptyBag

\* C17: when _end_giveaway_task reaches its write for an active record, the
\* record stays in the store and becomes ended, also when the channel or the
\* hosting message is gone; no step removes a record from the store
C17_EndKeepsRecord ==
    [][/\ DOMAIN giveaways \subseteq DOMAIN giveaways'
       /\ \A f \in BagToSet(inflight) :
             (EndWrite(f) /\ Has(f.mid) /\ Rec(f.mid).status = "active") =>
                 /\ f.mid \in DOMAIN giveaways'
                 /\ giveaways'[f.mid].status = "ended"]_vars

\* C18: when _claim_timeout_task finishes after a redraw that stored new
\* winners, a claim timer is pending for the record, also when the channel or
\* the hosting message is gone
C18_RedrawRearmsTimer ==
    [][\A f \in BagToSet(inflight) :
          ClaimTimeoutArm(f) => Pending(f.mid, "claim")' # {}]_vars

\* C19: when the claim timer fires for an ended record whose pool (entries
\* without the winners) is empty, the record stays as it is, the handler
\* returns without reaching its write and no new claim timer is armed
C19_EmptyPoolLeavesRecord ==
    [][\A t \in TaskIds :
          (/\ ClaimTimerFire(t)
           /\ Has(tasks[t].mid) /\ Rec(tasks[t].mid).status = "ended"
           /\ redraw_pool(Rec(tasks[t].mid)) = <<>>) =>
              /\ giveaways' = giveaways
              /\ tasks' = [tasks EXCEPT ![t] = FreeTask]
              /\ inflight' = inflight]_vars

\* the claim deadline has passed, nobody has claimed, the winners are all the
\* entrants, and the timer that ran out has left no successor
C19_Witness ==
    \E m \in DOMAIN giveaways :
        /\ Rec(m).status = "ended" /\ Rec(m).claim_enabled
        /\ message[m] = "present"
        /\ Rec(m).winner_ids # <<>> /\ Rec(m).claimed_winner_ids = <<>>
        /\ redraw_pool(Rec(m)) = <<>>
        /\ Rec(m).claim_deadline_ts = 0
        /\ \A t \in TaskIds : tasks[t] = FreeTask
        /\ inflight = EmptyBag

\* C20: when _end_giveaway_task (run by the end timer or by end_cmd) draws for
\* an active record from an empty entry list, the record becomes ended with no
\* winners, no claimed winners and no claim deadline; and an ended record with
\* no entries never has a claim deadline or a claim timer, claim enabled or not
C20_EmptyEntriesEnd ==
    [][/\ \A f \in BagToSet(inflight) :
             (/\ EndWrite(f) /\ message[f.mid] = "present"
              /\ Has(f.mid) /\ Rec(f.mid).status = "active"
              /\ f.entries = <<>>) =>
                 /\ f.mid \in DOMAIN giveaways'
                 /\ giveaways'[f.mid].status = "ended"
                 /\ giveaways'[f.mid].winner_ids = <<>>
                 /\ giveaways'[f.mid].winner_id = None
                 /\ giveaways'[f.mid].claimed_winner_ids = <<>>
                 /\ giveaways'[f.mid].claim_deadline_ts = None
       /\ \A m \in DOMAIN giveaways' :
             (giveaways'[m].status = "ended" /\ giveaways'[m].entries = <<>>) =>
                 /\ giveaways'[m].claim_deadline_ts = None
                 /\ \A t \in TaskIds :
                       ~(tasks'[t].st # "free" /\ tasks'[t].mid = m
                         /\ tasks'[t].kind = "claim")
                 /\ \A f \in BagToSet(inflight') : f.mid = m => ~f.claim]_vars

C20_Witness ==
    \E m \in DOMAIN giveaways :
        /\ draw[m].kind = "initial" /\ draw[m].pool = 0
        /\ Rec(m).status = "ended" /\ Rec(m).claim_enabled
        /\ Rec(m).entries = <<>> /\ Rec(m).winner_ids = <<>>
        /\ inflight = EmptyBag

\* C21: an entry-add event for a participant who is already entered, and an
\* entry-remove event for a participant who is not entered, change neither the
\* record nor the suspended handlers; after every write of a reaction handler
\* the entries hold no participant twice, and for an active record they hold
\* the participant after an add and do not hold the participant after a remove
C21_ReactionsIdempotent ==
    [][/\ \A m \in DOMAIN giveaways, u \in Users, e \in Emojis :
             /\ (Event /\ InSeq(u, Rec(m).entries) /\ ReactionAddBegin(m, u, e)) =>
                    (giveaways' = giveaways /\ inflight' = inflight)
             /\ (Event /\ ~InSeq(u, Rec(m).entries) /\ ReactionRemoveBegin(m, u, e)) =>
                    (giveaways' = giveaways /\ inflight' = inflight)
       /\ \A f \in BagToSet(inflight) :
             (ReactionWrite(f) /\ Has(f.mid)) =>
                 /\ NoDup(giveaways'[f.mid].entries)
                 /\ (Rec(f.mid).status = "active" /\ f.h = "reaction_add") =>
                        InSeq(f.user, giveaways'[f.mid].entries)
                 /\ (Rec(f.mid).status = "active" /\ f.h = "reaction_remove") =>
                        ~InSeq(f.user, giveaways'[f.mid].entries)]_vars

\* a second add handler of a participant is still suspended when the first
\* one has entered the participant
C21_Witness ==
    \E m \in DOMAIN giveaways :
        /\ Rec(m).status = "active"
        /\ \E f \in BagToSet(inflight) :
              /\ f.h = "reaction_add" /\ f.mid = m
              /\ InSeq(f.user, Rec(m).entries)

\* C22: an entry-add or entry-remove event for a record that is not active,
\* or with an emoji other than the record's, changes neither the record nor
\* the suspended handlers; and no step taken while a record is ended, claimed
\* or cancelled changes its entries
C22_EntriesOnlyWhileActive ==
    [][/\ \A m \in DOMAIN giveaways, u \in Users, e \in Emojis :
             (/\ Event
              /\ Rec(m).status # "active" \/ e # Rec(m).emoji
              /\ ReactionAddBegin(m, u, e) \/ ReactionRemoveBegin(m, u, e)) =>
                 (giveaways' = giveaways /\ inflight' = inflight)
       /\ \A m \in DOMAIN giveaways \cap DOMAIN giveaways' :
             Rec(m).status # "active" =>
                 giveaways'[m].entries = Rec(m).entries]_vars

\* a reaction handler that read the active record is about to write to the
\* record that has ended in the meantime
C22_Witness ==
    \E m \in DOMAIN giveaways :
        /\ Rec(m).status \in {"ended", "claimed", "cancelled"}
        /\ \E f \in BagToSet(inflight) :
              /\ f.h \in {"reaction_add", "reaction_remove"} /\ f.mid = m
              /\ f.entries # Rec(m).entries

\* C23: the write of a reaction handler for one participant applies that
\* event to the entries as they are stored at the write: it enters or removes
\* no other participant, also when it overlaps with another handler
C23_NoLostEntry ==
    [][\A f \in BagToSet(inflight) :
          (ReactionWrite(f) /\ Has(f.mid) /\ Rec(f.mid).status = "active") =>
              \A v \in Users \ {f.user} :
                  InSeq(v, giveaways'[f.mid].entries) <=> InSeq(v, Rec(f.mid).entries)]_vars

\* C24: an operation that is not legal in the record's status changes neither
\* the stored records nor the timers nor the suspended handlers: a claim click
\* on a record that is not ended, by a non-winner or by a winner who has
\* claimed; end and edit on a record that is not active; reroll on an active
\* or cancelled record; cancel on a claimed or cancelled record
C24_Rejected ==
    giveaways' = giveaways /\ tasks' = tasks /\ end_tasks' = end_tasks /\ inflight' = inflight
C25_WinnerCountRejected ==
    [][\A m \in MessageIds, n \in 0..MaxWinnerArg, d \in Durations,
          cs \in {0, MinClaimSeconds} :
          (Start(m, n, d, cs) /\ n \notin 1..WinnerCap) =>
              (giveaways' = giveaways /\ tasks' = tasks)]_vars

\* C26: in every reachable state a record whose status is claimed or
\* cancelled has no claim deadline
C26_DeadlineClearedAfterEnded ==
    \A m \in DOMAIN giveaways :
        Rec(m).status \in {"claimed", "cancelled"} => Rec(m).claim_deadline_ts = None

\* C27 as stated: in every step that leaves a record ended, every winner who
\* has claimed is still in claimed_winner_ids afterwards
C27_ClaimedGrowsWhileEnded ==
    [][\A m \in DOMAIN giveaways \cap DOMAIN giveaways' :
          (Rec(m).status = "ended" /\ giveaways'[m].status = "ended") =>
              Claimed(m) \subseteq SeqToSet(giveaways'[m].claimed_winner_ids)]_vars

\* C27 amended: in every step that leaves a record ended, every winner who
\* has claimed is still in claimed_winner_ids afterwards, unless the step is
\* the write of a redraw or of a reroll, which replaces the winners and
\* empties claimed_winner_ids
C27_ClaimedGrowsBetweenDraws ==
    [][\A m \in DOMAIN giveaways \cap DOMAIN giveaways' :
          (Rec(m).status = "ended" /\ giveaways'[m].status = "ended") =>
              \/ Claimed(m) \subseteq SeqToSet(giveaways'[m].claimed_winner_ids)
              \/ /\ giveaways'[m].claimed_winner_ids = <<>>
                 /\ \E f \in BagToSet(inflight) :
                       f.mid = m /\ (ClaimTimeoutWrite(f) \/ RerollWrite(f))]_vars

\* one of several winners has claimed and the record is still ended
C27_Witness ==
    \E m \in DOMAIN giveaways :
        /\ Rec(m).status = "ended"
        /\ Claimed(m) # {} /\ Claimed(m) # Winners(m)
        /\ Claimed(m) \subseteq Winners(m)

\* C28: no step changes the winner_count, emoji, claim_enabled, claim_seconds,
\* host_id or channel_id of a stored record, and the write of an edit changes
\* nothing but the prize and end_ts
C28_FixedAfterCreation ==
    [][\A m \in DOMAIN giveaways \cap DOMAIN giveaways' :
          /\ giveaways'[m].winner_count = Rec(m).winner_count
          /\ giveaways'[m].emoji = Rec(m).emoji
          /\ giveaways'[m].claim_enabled = Rec(m).claim_enabled
          /\ giveaways'[m].claim_seconds = Rec(m).claim_seconds
          /\ giveaways'[m].host_id = Rec(m).host_id
          /\ giveaways'[m].channel_id = Rec(m).channel_id
          /\ \A f \in BagToSet(inflight) :
                (EditWrite(f) /\ f.mid = m) =>
                    giveaways'[m] = [Rec(m) EXCEPT !.prize = giveaways'[m].prize,
                                                   !.end_ts = giveaways'[m].end_ts]]_vars

\* a record with several winners whose prize has been edited and that has
\* since been drawn
C28_Witness ==
    \E m \in DOMAIN giveaways :
        /\ Rec(m).prize \in Prizes
        /\ Rec(m).winner_count > 1
        /\ Rec(m).status # "active"
        /\ inflight = EmptyBag

\* C29: under LiveSpec every active giveaway eventually becomes ended or
\* cancelled
C29_ActiveEventuallyEnds ==
    \A m \in MessageIds :
        [](( Has(m) /\ Rec(m).status = "active") =>
             <>(Has(m) /\ Rec(m).status \in {"ended", "cancelled"}))

\* C30: in every reachable state every record with claim_enabled has
\* claim_seconds of at least 60
C30_ClaimWindowAtLeastMinimum ==
    \A m \in DOMAIN giveaways :
        Rec(m).claim_enabled => Rec(m).claim_seconds >= MinClaimSeconds

\* C31: redraw and reroll exclude only the current winners: the pool that the
\* claim-expiry handler and the reroll command read is every entrant who is
\* not a winner at that moment, so a participant who won and was replaced by
\* an earlier redraw or reroll is drawn from again
C31_PoolExcludesOnlyCurrentWinners ==
    [][/\ \A t \in TaskIds :
             (/\ Has(tasks[t].mid) /\ Rec(tasks[t].mid).status = "ended"
              /\ Len(Rec(tasks[t].mid).claimed_winner_ids) < Len(Rec(tasks[t].mid).winner_ids)
              /\ SeqToSet(Rec(tasks[t].mid).entries) \ Winners(tasks[t].mid) # {}
              /\ ClaimTimerFire(t))
             => \E f \in BagToSet(inflight') :
                   /\ f.h = "claim_timeout" /\ f.pc = "write" /\ f.task = t
                   /\ SeqToSet(f.entries) =
                         SeqToSet(Rec(tasks[t].mid).entries) \ Winners(tasks[t].mid)
       /\ \A m \in MessageIds :
             (/\ Event /\ Has(m) /\ Rec(m).status \in {"ended", "claimed"}
              /\ SeqToSet(Rec(m).entries) \ Winners(m) # {}
              /\ RerollBegin(m, Host.id, Host.perms))
             => \E f \in BagToSet(inflight') :
                   /\ f.h = "reroll" /\ f.pc = "write" /\ f.mid = m
                   /\ SeqToSet(f.entries) = SeqToSet(Rec(m).entries) \ Winners(m)]_vars

\* a participant who was replaced by an earlier draw, and was not a winner
\* just before the last redraw or reroll, is a winner again
C31_Witness ==
    \E m \in DOMAIN giveaways :
        /\ draw[m].kind \in {"redraw", "reroll"}
        /\ \E u \in Winners(m) : u \in draw[m].former /\ u \notin draw[m].prev

\* C32: the initial draw uses the entries as they are stored when the status
\* changes to ended: the write that ends the record leaves the stored entries
\* as every reaction applied while the record was active made them, and draws
\* the winners from them
C32_DrawUsesEntriesAtEnd ==
    [][\A f \in BagToSet(inflight) :
          (/\ f.h = "end_giveaway" /\ Has(f.mid) /\ Rec(f.mid).status = "active"
           /\ EndWrite(f)
           /\ f.mid \in DOMAIN giveaways' /\ giveaways'[f.mid].status = "ended")
          => /\ giveaways'[f.mid].entries = Rec(f.mid).entries
             /\ SeqToSet(giveaways'[f.mid].winner_ids) \subseteq SeqToSet(Rec(f.mid).entries)]_vars

\* C33: the initial draw is committed at most once per record: an end handler
\* that reaches its write block when the record is no longer active leaves the
\* record (status, winners, entries, deadline) unchanged, goes on to no
\* announcement and arms no claim-expiry timer; only a write that finds the
\* record active makes it ended
C33_InitialDrawOnce ==
    [][\A f \in BagToSet(inflight) :
          (/\ f.h = "end_giveaway" /\ f.pc = "write" /\ Has(f.mid)
           /\ message[f.mid] = "present"
           /\ Rec(f.mid).status # "active"
           /\ EndWrite(f))
          => /\ giveaways' = giveaways
             /\ inflight' = inflight (-) SetToBag({f})
             /\ \A t \in TaskIds :
                   tasks'[t].st # "free" /\ tasks'[t].kind = "claim" => tasks'[t] = tasks[t]
             /\ end_tasks'[<<f.mid, "claim">>] = end_tasks[<<f.mid, "claim">>]]_vars

\* two end handlers ran for one record: the first stored winners and armed
\* the claim timer, the second reached its write block afterwards and returned
C33_Witness ==
    \E m \in DOMAIN giveaways :
        /\ draw[m].kind = "initial" /\ draw[m].late
        /\ Rec(m).status = "ended" /\ Winners(m) # {}
        /\ Pending(m, "claim") # {}
        /\ inflight = EmptyBag

\* C34 (commands): an end, edit, reroll or cancel command whose author is
\* neither the giveaway's host nor holds the manage-guild permission leaves
\* the stored records, the timers and the suspended handlers unchanged
C34_OnlyManagersChange ==
    [][\A m \in DOMAIN giveaways, a \in Authors :
          (Event /\ a.id # Rec(m).host_id /\ a.perms # "manage_guild") =>
              /\ EndCmd(m, a.id, a.perms) => C24_Rejected
              /\ RerollBegin(m, a.id, a.perms) => C24_Rejected
              /\ CancelBegin(m, a.id, a.perms) => C24_Rejected
              /\ \A prize \in Prizes \cup {NoPrize}, d \in Durations \cup {None} :
                    EditCmd(m, a.id, a.perms, prize, d) => C24_Rejected]_vars

\* C34 (claims): every user that a step adds to claimed_winner_ids is a
\* winner of the record when the step is taken
C34_OnlyWinnerClaims ==
    [][\A m \in DOMAIN giveaways :
          m \in DOMAIN giveaways' =>
              \A u \in SeqToSet(giveaways'[m].claimed_winner_ids) \ Claimed(m) :
                  u \in Winners(m)]_vars

\* C34: only the host or a user with the manage-guild permission changes a
\* giveaway through end, edit, reroll or cancel, and only a current winner is
\* added to claimed_winner_ids; for any other user the operation leaves the
\* stored record and the timers unchanged
C34_OnlyAuthorizedChange ==
    [][/\ \A m \in DOMAIN giveaways, a \in Authors :
             (Event /\ a.id # Rec(m).host_id /\ a.perms # "manage_guild") =>
                 /\ EndCmd(m, a.id, a.perms) => C24_Rejected
                 /\ RerollBegin(m, a.id, a.perms) => C24_Rejected
                 /\ CancelBegin(m, a.id, a.perms) => C24_Rejected
                 /\ \A prize \in Prizes \cup {NoPrize}, d \in Durations \cup {None} :
                       EditCmd(m, a.id, a.perms, prize, d) => C24_Rejected
       /\ \A m \in DOMAIN giveaways :
             /\ \A u \in Users :
                   (Event /\ u \notin Winners(m) /\ ClaimClickBegin(m, u)) => C24_Rejected
             /\ m \in DOMAIN giveaways' =>
                   \A u \in SeqToSet(giveaways'[m].claimed_winner_ids) \ Claimed(m) :
                       u \in Winners(m)]_vars

\* ======================================================================
\* Counting cog (src/counting/counting.py).  Each handler reads the whole
\* channels map, changes its copy and stores it with channels.set; a
\* handler is taken as one step, messages being handled one after another.
\* The highest record, the reactions and the ruin text are left out.
\* ======================================================================
Goals == {None, 2, 3}
GoalIntervals == {None, 2}
MaxConsecutive == 2
\* what a message says: text that is no number, or a number: the next
\* values of the count, exact or 0.00005 below (the result of a division)
Contents ==
    {<<"text", 0>>} \cup
    {<<"number", k * Scale - d>> : k \in 1..MaxCount, d \in {0, Tolerance \div 2}}

\* Counting._parse_count: float(content), or None
parse_count(content) == IF content[1] = "number" THEN content[2] ELSE None

abs(x) == IF x < 0 THEN -x ELSE x
\* abs(parsed_value - expected) > 0.0001
wrong_number(parsed_value, expected) == abs(parsed_value - expected * Scale) > Tolerance
\* int(parsed_value) of a positive float
int(parsed_value) == parsed_value \div Scale

Configured == CountingChannel \in DOMAIN channels
channel_config == channels[CountingChannel]
SetConfig(cfg) == channels' = [c \in {CountingChannel} |-> cfg]

\* countingset channel
SetChannel ==
    /\ ~Configured
    /\ SetConfig([current |-> 0, goal |-> None, last_user |-> None, max_consecutive |-> 1,
                  ruin_enabled |-> FALSE, consecutive_count |-> 0,
                  consecutive_user |-> None, goal_interval |-> None,
                  last_announced_goal |-> None])
    /\ UNCHANGED <<announced, streak>>

\* countingset goal: 0 means infinite (None)
SetGoal(goal) ==
    /\ Configured
    /\ SetConfig([channel_config EXCEPT !.goal = goal])
    /\ announced' = {}
    /\ UNCHANGED streak

\* countingset goalinterval
SetGoalInterval(interval) ==
    /\ Configured
    /\ SetConfig([channel_config EXCEPT !.goal_interval = interval,
                                        !.last_announced_goal = None])
    /\ announced' = {}
    /\ UNCHANGED streak

\* countingset consecutive: "Maximum consecutive count must be at least 1."
SetConsecutive(max_count) ==
    /\ Configured
    /\ IF max_count < 1
       THEN UNCHANGED <<channels, streak>>
       ELSE SetConfig([channel_config EXCEPT !.max_consecutive = max_count])
            /\ streak' = NoStreak
    /\ UNCHANGED announced

\* countingset ruin
SetRuin(enable) ==
    /\ Configured
    /\ SetConfig([channel_config EXCEPT !.ruin_enabled = enable])
    /\ UNCHANGED <<announced, streak>>

\* current = 0, last_user, consecutive_user and last_announced_goal = None
reset_count(cfg) ==
    [cfg EXCEPT !.current = 0, !.last_user = None, !.consecutive_count = 0,
                !.consecutive_user = None, !.last_announced_goal = None]

\* countingset reset
ResetCount ==
    /\ Configured
    /\ SetConfig(reset_count(channel_config))
    /\ announced' = {}
    /\ streak' = NoStreak

\* countingset setnext: "Next number must be at least 1."
SetNextNumber(next_number) ==
    /\ Configured
    /\ IF next_number < 1
       THEN UNCHANGED <<channels, announced, streak>>
       ELSE /\ SetConfig([reset_count(channel_config) EXCEPT !.current = next_number - 1])
            /\ announced' = {}
            /\ streak' = NoStreak

\* the message is not counted: with ruin mode the count is reset
ruin(cfg) == IF cfg.ruin_enabled THEN reset_count(cfg) ELSE cfg

\* the same-user check of on_message
same_user_rejects(cfg, author) ==
    IF cfg.max_consecutive = 1
    THEN cfg.last_user = author
    ELSE cfg.consecutive_user = author /\ cfg.consecutive_count >= cfg.max_consecutive

\* the goal announced after the count became new_current, or None
goal_reached(cfg, new_current) ==
    LET milestone == IF cfg.goal_interval # None /\ cfg.goal_interval > 0
                     THEN (new_current \div cfg.goal_interval) * cfg.goal_interval
                     ELSE 0
        by_interval == IF milestone > 0 /\ milestone # cfg.last_announced_goal
                       THEN milestone ELSE None
    IN  IF /\ cfg.goal # None /\ cfg.goal # 0 /\ new_current >= cfg.goal
           /\ cfg.goal # by_interval
           /\ cfg.goal # cfg.last_announced_goal
        THEN cfg.goal
        ELSE by_interval

\* the valid count: current, last_user, the consecutive tracking, the goal
accept(cfg, author, parsed_value) ==
    LET new_current == int(parsed_value)
        goal == goal_reached(cfg, new_current)
    IN  [cfg EXCEPT !.current = new_current,
                    !.last_user = author,
                    !.consecutive_count =
                        IF cfg.consecutive_user = author
                        THEN cfg.consecutive_count + 1 ELSE 1,
                    !.consecutive_user = author,
                    !.last_announced_goal = IF goal # None THEN goal ELSE @]

\* the message is a valid count
Accepted(cfg, author, content) ==
    /\ parse_count(content) # None
    /\ ~wrong_number(parse_count(content), cfg.current + 1)
    /\ ~same_user_rejects(cfg, author)

\* Counting.on_message
OnMessage(author, content) ==
    /\ Configured
    /\ LET cfg == channel_config
           parsed_value == parse_count(content)
       IN  IF parsed_value = None \/ wrong_number(parsed_value, cfg.current + 1)
           THEN /\ SetConfig(ruin(cfg))
                /\ announced' = IF cfg.ruin_enabled THEN {} ELSE announced
                /\ streak' = IF cfg.ruin_enabled THEN NoStreak ELSE streak
           ELSE IF same_user_rejects(cfg, author)
           THEN LET ruined == cfg.max_consecutive = 1 /\ cfg.ruin_enabled
                IN  /\ SetConfig(IF ruined THEN reset_count(cfg) ELSE cfg)
                    /\ announced' = IF ruined THEN {} ELSE announced
                    /\ streak' = IF ruined THEN NoStreak ELSE streak
           ELSE /\ SetConfig(accept(cfg, author, parsed_value))
                /\ announced' =
                      LET goal == goal_reached(cfg, int(parsed_value))
                      IN  IF goal # None THEN announced \cup {goal} ELSE announced
                /\ streak' = [user |-> author,
                              n |-> IF streak.user = author THEN streak.n + 1 ELSE 1]

\* a step of the counting cog leaves the giveaways alone
Counting == UNCHANGED <<vars, remind_vars, autovc_vars>>

CountingNext ==
    \/ Counting /\ SetChannel
    \/ \E goal \in Goals : Counting /\ SetGoal(goal)
    \/ \E interval \in GoalIntervals : Counting /\ SetGoalInterval(interval)
    \/ \E max_count \in 0..MaxConsecutive : Counting /\ SetConsecutive(max_count)
    \/ \E enable \in BOOLEAN : Counting /\ SetRuin(enable)
    \/ Counting /\ ResetCount
    \/ \E next_number \in 0..MaxCount : Counting /\ SetNextNumber(next_number)
    \/ \E author \in Users, content \in Contents : Counting /\ OnMessage(author, content)

CountingSpec == Init /\ [][CountingNext]_counting_vars

\* C35: between two resets of the count each goal value, the fixed goal and
\* each multiple of goal_interval, is announced at most once: a message that
\* is accepted announces no value that was announced since the last reset
C35_GoalAnnouncedOnce ==
    [][\A author \in Users, content \in Contents :
          (/\ Configured /\ Accepted(channel_config, author, content)
           /\ OnMessage(author, content))
          => goal_reached(channel_config, int(parse_count(content))) \notin announced]_counting_vars

\* C36: with max_consecutive = N no user has more than N accepted counts in
\* a row, every accepted count sets current to exactly the previous current
\* plus one, and a message that is not accepted never increases current
C36_CountsByOne ==
    [][\A author \in Users, content \in Contents :
          (Configured /\ OnMessage(author, content)) =>
              IF Accepted(channel_config, author, content)
              THEN /\ channels'[CountingChannel].current = channel_config.current + 1
                   /\ streak'.n <= channel_config.max_consecutive
              ELSE channels'[CountingChannel].current <= channel_config.current]_counting_vars

\* ======================================================================
\* Remindme cog (src/remindme/remindme.py).  A stored timer keeps end_ts,
\* here the time left until it; run() is the task that sleeps until end_ts
\* and then calls _fire_timer.  A timer id is a fresh uuid: an id is used
\* again only when nothing of its earlier use is left.
\* ======================================================================
add_timer(id, end_ts) ==
    [x \in DOMAIN timers \cup {id} |-> IF x = id THEN end_ts ELSE timers[x]]
remove_timer(id) == [x \in DOMAIN timers \ {id} |-> timers[x]]

\* Remindme._create_timer: _add_timer, then _schedule_timer
CreateTimer(id, duration_seconds) ==
    /\ id \notin DOMAIN timers /\ timer_tasks[id] = "none"
    /\ timers' = add_timer(id, duration_seconds)
    /\ timer_tasks' = [timer_tasks EXCEPT ![id] = "created"]
    /\ delivered' = delivered \ {id}
    /\ UNCHANGED restarts

\* run() starts: it reads the store and sleeps max(0, end_ts - now)
RunStart(id) ==
    /\ timer_tasks[id] = "created"
    /\ timer_tasks' = [timer_tasks EXCEPT ![id] =
                          IF id \in DOMAIN timers THEN "sleeping" ELSE "none"]
    /\ UNCHANGED <<timers, delivered, restarts>>

\* the sleep is over: _fire_timer removes the timer and sends the reminder,
\* which the platform may refuse; finally: self._timer_tasks.pop(timer_id)
FireTimer(id) ==
    /\ timer_tasks[id] = "sleeping"
    /\ id \in DOMAIN timers => timers[id] = 0
    /\ timers' = remove_timer(id)
    /\ timer_tasks' = [timer_tasks EXCEPT ![id] = "none"]
    /\ \E sent \in BOOLEAN :
          delivered' = IF sent /\ id \in DOMAIN timers THEN delivered \cup {id} ELSE delivered
    /\ UNCHANGED restarts

\* remindmeset cancel: "No reminder found with that ID."
TimerCancel(id) ==
    /\ IF id \notin DOMAIN timers
       THEN UNCHANGED <<timers, timer_tasks>>
       ELSE /\ timers' = remove_timer(id)
            /\ timer_tasks' = [timer_tasks EXCEPT ![id] = "none"]
    /\ UNCHANGED <<delivered, restarts>>

\* time passes; a task whose sleep is over fires first
elapse(n) == [x \in DOMAIN timers |-> Max(0, timers[x] - n)]
RemindTick ==
    /\ \A id \in DOMAIN timers : timer_tasks[id] = "sleeping" => timers[id] > 0
    /\ \E id \in DOMAIN timers : timers[id] > 0
    /\ timers' = elapse(1)
    /\ UNCHANGED <<timer_tasks, delivered, restarts>>

\* cog_load: if tid and end_ts > now: self._schedule_timer(tid)
load_schedules(end_ts) == end_ts > 0

\* cog_unload cancels every task; the bot is down for a while; cog_load
RestartRemind(down) ==
    /\ restarts < MaxRestarts
    /\ restarts' = restarts + 1
    /\ timers' = elapse(down)
    /\ timer_tasks' = [id \in ReminderIds |->
                          IF id \in DOMAIN timers /\ load_schedules(elapse(down)[id])
                          THEN "created" ELSE "none"]
    /\ UNCHANGED delivered

\* a step of the reminder cog leaves the other cogs alone
Remind == UNCHANGED <<vars, counting_vars, autovc_vars>>

RemindNext ==
    \/ \E id \in ReminderIds, duration_seconds \in 1..MaxDelay :
          Remind /\ CreateTimer(id, duration_seconds)
    \/ \E id \in ReminderIds : Remind /\ RunStart(id)
    \/ \E id \in ReminderIds : Remind /\ FireTimer(id)
    \/ \E id \in ReminderIds : Remind /\ TimerCancel(id)
    \/ Remind /\ RemindTick
    \/ \E down \in 0..MaxDelay : Remind /\ RestartRemind(down)

RemindSpec == Init /\ [][RemindNext]_remind_vars

\* the event loop runs every task that is ready, and time passes
RemindLiveSpec ==
    /\ RemindSpec
    /\ WF_remind_vars(Remind /\ RemindTick)
    /\ \A id \in ReminderIds : WF_remind_vars(Remind /\ RunStart(id))
    /\ \A id \in ReminderIds : WF_remind_vars(Remind /\ FireTimer(id))

\* C37: after a restart of the reminder cog every reminder that is still in
\* the store is eventually delivered or removed, also when its end time
\* passed while the bot was down
C37_StoredEventuallyGone ==
    \A id \in ReminderIds :
        (restarts > 0 /\ id \in DOMAIN timers) ~> (id \notin DOMAIN timers)

\* ======================================================================
\* AutoVC cog (src/autovc/autovc.py).  A handler is a frame that advances
\* from one awaited platform call to the next.  The read of created_vcs
\* and the created_vcs.set that follows it with no platform call between
\* them are one step.  The rate limit, the owner roles and the claimable
\* channels are left out; a platform call that deletes a channel succeeds.
\* ======================================================================
members_of(v) == {m \in Members : member_at[m] = v}
\* async with self.processing_lock: one join is processed at a time
lock_held == \E m \in Members : join[m].pc \in {"track", "move"}

\* a member joins the source channel: the handler waits for the lock
JoinSource(m) ==
    /\ member_at[m] = None /\ join[m].pc = "idle"
    /\ member_at' = [member_at EXCEPT ![m] = SourceVc]
    /\ join' = [join EXCEPT ![m].pc = "wait"]
    /\ UNCHANGED <<created_vcs, guild_vcs, cleanup, leaving, fresh, next_vc>>

\* _create_vc: await category.create_voice_channel(...)
CreateChannel(m) ==
    /\ join[m].pc = "wait" /\ ~lock_held
    /\ next_vc <= MaxVcs
    /\ guild_vcs' = guild_vcs \cup {next_vc}
    /\ next_vc' = next_vc + 1
    /\ join' = [join EXCEPT ![m] = [pc |-> "track", vc |-> next_vc]]
    /\ UNCHANGED <<created_vcs, member_at, cleanup, leaving, fresh>>

\* _create_vc: created_vcs[str(vc.id)] = {...}; created_vcs.set(created_vcs)
TrackVc(m) ==
    /\ join[m].pc = "track"
    /\ created_vcs' = created_vcs \cup {join[m].vc}
    /\ fresh' = fresh \cup {join[m].vc}
    /\ join' = [join EXCEPT ![m].pc = "move"]
    /\ UNCHANGED <<guild_vcs, member_at, cleanup, leaving, next_vc>>

\* await member.move_to(new_vc): it fails when the channel is gone
MoveMember(m) ==
    /\ join[m].pc = "move"
    /\ member_at' = IF join[m].vc \in guild_vcs /\ member_at[m] = SourceVc
                     THEN [member_at EXCEPT ![m] = join[m].vc] ELSE member_at
    /\ join' = [join EXCEPT ![m] = IdleJoin]
    /\ UNCHANGED <<created_vcs, guild_vcs, cleanup, leaving, fresh, next_vc>>

\* two seconds have passed since created_at
Age(v) ==
    /\ v \in fresh
    /\ fresh' = fresh \ {v}
    /\ UNCHANGED <<created_vcs, guild_vcs, member_at, join, cleanup, leaving, next_vc>>

\* a member joins a created channel that is not a source channel
JoinVc(m, v) ==
    /\ member_at[m] = None /\ join[m].pc = "idle" /\ v \in guild_vcs
    /\ member_at' = [member_at EXCEPT ![m] = v]
    /\ UNCHANGED <<created_vcs, guild_vcs, join, cleanup, leaving, fresh, next_vc>>

\* the leave branch of on_voice_state_update: the channel is recorded, older
\* than two seconds and empty
deletes_when_left(v) == v \in created_vcs /\ v \notin fresh

\* a member leaves voice: from a created channel, or from the source channel
LeaveVc(m) ==
    /\ member_at[m] # None /\ join[m].pc = "idle"
    /\ member_at' = [member_at EXCEPT ![m] = None]
    /\ leaving' = IF /\ member_at[m] # SourceVc
                      /\ deletes_when_left(member_at[m])
                      /\ members_of(member_at[m]) = {m}
                   THEN leaving \cup {member_at[m]} ELSE leaving
    /\ UNCHANGED <<created_vcs, guild_vcs, join, cleanup, fresh, next_vc>>

\* _delete_vc_immediately: await vc.delete(), then created_vcs is read, the
\* id is removed and the map is stored
DeleteVcImmediately(v) ==
    /\ v \in leaving
    /\ leaving' = leaving \ {v}
    /\ guild_vcs' = guild_vcs \ {v}
    /\ created_vcs' = created_vcs \ {v}
    /\ fresh' = fresh \ {v}
    /\ UNCHANGED <<member_at, join, cleanup, next_vc>>

\* _cleanup_guild_vcs: the recorded channels that are gone or empty
cleanup_selects(recorded) ==
    {v \in recorded : v \notin guild_vcs \/ members_of(v) = {}}

\* the loop wakes up, reads created_vcs and picks the channels to delete
CleanupRead ==
    /\ cleanup.pc = "sleep"
    /\ cleanup' = IF cleanup_selects(created_vcs) = {}
                  THEN IdleCleanup
                  ELSE [pc |-> "deleting", created_vcs |-> created_vcs,
                        vcs_to_delete |-> cleanup_selects(created_vcs),
                        todo |-> cleanup_selects(created_vcs)]
    /\ UNCHANGED <<created_vcs, guild_vcs, member_at, join, leaving, fresh, next_vc>>

\* for vc_id_str in vcs_to_delete: await vc.delete() if it still exists
CleanupDelete ==
    /\ cleanup.pc = "deleting" /\ cleanup.todo # {}
    /\ LET v == CHOOSE x \in cleanup.todo : \A y \in cleanup.todo : x <= y
       IN  /\ guild_vcs' = guild_vcs \ {v}
           /\ cleanup' = [cleanup EXCEPT !.todo = @ \ {v}]
    /\ UNCHANGED <<created_vcs, member_at, join, leaving, fresh, next_vc>>

\* created_vcs.set(created_vcs): the copy read at the start, without the
\* deleted ids
cleanup_stores(recorded, deleted) == recorded \ deleted

CleanupWrite ==
    /\ cleanup.pc = "deleting" /\ cleanup.todo = {}
    /\ created_vcs' = cleanup_stores(cleanup.created_vcs, cleanup.vcs_to_delete)
    /\ fresh' = fresh \cap created_vcs'
    /\ cleanup' = IdleCleanup
    /\ UNCHANGED <<guild_vcs, member_at, join, leaving, next_vc>>

\* a step of the AutoVC cog leaves the other cogs alone
AutoVC == UNCHANGED <<vars, counting_vars, remind_vars>>

AutoVCNext ==
    \/ \E m \in Members : AutoVC /\ JoinSource(m)
    \/ \E m \in Members : AutoVC /\ CreateChannel(m)
    \/ \E m \in Members : AutoVC /\ TrackVc(m)
    \/ \E m \in Members : AutoVC /\ MoveMember(m)
    \/ \E v \in VcIds : AutoVC /\ Age(v)
    \/ \E m \in Members, v \in VcIds : AutoVC /\ JoinVc(m, v)
    \/ \E m \in Members : AutoVC /\ LeaveVc(m)
    \/ \E v \in VcIds : AutoVC /\ DeleteVcImmediately(v)
    \/ AutoVC /\ CleanupRead
    \/ AutoVC /\ CleanupDelete
    \/ AutoVC /\ CleanupWrite

AutoVCSpec == Init /\ [][AutoVCNext]_autovc_vars

\* C38: a created channel that is recorded in created_vcs stays recorded as
\* long as it exists: no step removes from created_vcs a channel that still
\* exists after the step
C38_RecordedWhileExists ==
    [][\A v \in VcIds :
          (v \in created_vcs /\ v \in guild_vcs') => v \in created_vcs']_autovc_vars

\* C39: between the creation of a channel for a member and the end of the
\* move of that member into it, the channel exists: the cog has not deleted it
C39_NewVcKeptUntilMoved ==
    \A m \in Members : join[m].pc \in {"track", "move"} => join[m].vc \in guild_vcs
====
